---- MODULE Spec2Model ----
(***************************************************************************)
(* Two-tier product cache of the bot: the process-wide PRODUCT_CACHE       *)
(* mapping (main.py), the durable product_cache table (main.py's sqlite    *)
(* helpers, and db_backend.py's sqlite / libsql branches), the cache       *)
(* orchestrator cache_store_from_order / cache_get_all, and TTL expiry.    *)
(***************************************************************************)
EXTENDS Integers, Sequences, FiniteSets, TLC

VARIABLES
    PRODUCT_CACHE,  \* main.py:25  key -> [items, meta, ts]
    product_cache,  \* the rows of table product_cache (set of records)
    now,            \* the clock read by time() / _now()
    backend,        \* which implementation of the db_* helpers this process runs
    call,           \* the last call made since the clock moved: operation, arguments, result
    written,        \* key -> the last write of content under that key
    inflight,       \* caller -> the call it is in: position, row, outcome
    schema,         \* the table product_cache in the store: "absent", "legacy" (no meta_json), "current"
    pc              \* where the process is in its entry point: "import", "db_init", "purged", "polling"

vars == <<PRODUCT_CACHE, product_cache, now, backend, call, written, inflight, schema, pc>>

(***************************************************************************)
(* Python values.  Strings are TLA+ strings, a dict is the sequence of its *)
(* <<key, value>> pairs in insertion order.                                *)
(***************************************************************************)
None == [t |-> "None"]
Str(s) == [t |-> "str", s |-> s]
Num(n) == [t |-> "int", n |-> n]
List(l) == [t |-> "list", l |-> l]
Dict(d) == [t |-> "dict", d |-> d]

\* Python truth value of v (used by `not x`, `x or y`, `if x`)
Truthy(v) ==
    CASE v.t = "None" -> FALSE
      [] v.t = "str"  -> v.s # ""
      [] v.t = "int"  -> v.n # 0
      [] v.t = "list" -> v.l # <<>>
      [] v.t = "dict" -> v.d # <<>>

\* Python `a or b`
Or(a, b) == IF Truthy(a) THEN a ELSE b

(***************************************************************************)
(* json.dumps / json.loads.  A JSON text is the sequence of its tokens.    *)
(***************************************************************************)
Tok(k) == [k |-> k]
StrTok(s) == [k |-> "str", s |-> s]
NumTok(n) == [k |-> "num", n |-> n]

RECURSIVE JsonDumps(_), DumpElems(_, _), DumpMembers(_, _)
DumpElems(l, i) ==
    IF i > Len(l) THEN <<>>
    ELSE (IF i > 1 THEN <<Tok(",")>> ELSE <<>>) \o JsonDumps(l[i]) \o DumpElems(l, i + 1)

DumpMembers(d, i) ==
    IF i > Len(d) THEN <<>>
    ELSE (IF i > 1 THEN <<Tok(",")>> ELSE <<>>)
         \o <<StrTok(d[i][1]), Tok(":")>> \o JsonDumps(d[i][2])
         \o DumpMembers(d, i + 1)

JsonDumps(v) ==
    CASE v.t = "None" -> <<Tok("null")>>
      [] v.t = "str"  -> <<StrTok(v.s)>>
      [] v.t = "int"  -> <<NumTok(v.n)>>
      [] v.t = "list" -> <<Tok("[")>> \o DumpElems(v.l, 1) \o <<Tok("]")>>
      [] v.t = "dict" -> <<Tok("{")>> \o DumpMembers(v.d, 1) \o <<Tok("}")>>

\* json.loads raises JSONDecodeError: ok = FALSE
ParseFail == [ok |-> FALSE]

RECURSIVE ParseValue(_, _), ParseElems(_, _, _), ParseMembers(_, _, _)
ParseElems(t, i, acc) ==
    LET e == ParseValue(t, i) IN
    IF ~e.ok THEN ParseFail
    ELSE IF e.n > Len(t) THEN ParseFail
    ELSE IF t[e.n].k = "," THEN ParseElems(t, e.n + 1, Append(acc, e.v))
    ELSE IF t[e.n].k = "]" THEN [ok |-> TRUE, v |-> List(Append(acc, e.v)), n |-> e.n + 1]
    ELSE ParseFail

ParseMembers(t, i, acc) ==
    IF i + 1 > Len(t) THEN ParseFail
    ELSE IF t[i].k # "str" \/ t[i + 1].k # ":" THEN ParseFail
    ELSE LET e == ParseValue(t, i + 2) IN
         IF ~e.ok THEN ParseFail
         ELSE IF e.n > Len(t) THEN ParseFail
         ELSE IF t[e.n].k = ","
              THEN ParseMembers(t, e.n + 1, Append(acc, <<t[i].s, e.v>>))
         ELSE IF t[e.n].k = "}"
              THEN [ok |-> TRUE, v |-> Dict(Append(acc, <<t[i].s, e.v>>)), n |-> e.n + 1]
         ELSE ParseFail

ParseValue(t, i) ==
    IF i > Len(t) THEN ParseFail
    ELSE CASE t[i].k = "null" -> [ok |-> TRUE, v |-> None, n |-> i + 1]
           [] t[i].k = "str"  -> [ok |-> TRUE, v |-> Str(t[i].s), n |-> i + 1]
           [] t[i].k = "num"  -> [ok |-> TRUE, v |-> Num(t[i].n), n |-> i + 1]
           [] t[i].k = "["    ->
                IF i + 1 <= Len(t) /\ t[i + 1].k = "]"
                THEN [ok |-> TRUE, v |-> List(<<>>), n |-> i + 2]
                ELSE ParseElems(t, i + 1, <<>>)
           [] t[i].k = "{"    ->
                IF i + 1 <= Len(t) /\ t[i + 1].k = "}"
                THEN [ok |-> TRUE, v |-> Dict(<<>>), n |-> i + 2]
                ELSE ParseMembers(t, i + 1, <<>>)
           [] OTHER -> ParseFail

JsonLoads(text) ==
    LET r == ParseValue(text, 1) IN
    IF r.ok /\ r.n = Len(text) + 1 THEN [ok |-> TRUE, v |-> r.v] ELSE ParseFail

(***************************************************************************)
(* SQL column values: NULL or a TEXT holding a JSON text.                  *)
(***************************************************************************)
SqlNull == [sql |-> "NULL"]
SqlText(text) == [sql |-> "TEXT", text |-> text]

\* `json.loads(c) if c else None` on a fetched column
LoadColumn(c) ==
    IF c.sql = "TEXT" /\ c.text # <<>> THEN JsonLoads(c.text)
    ELSE [ok |-> TRUE, v |-> None]

\* ASCII case folding of SQLite's LIKE
LowerAlpha == "abcdefghijklmnopqrstuvwxyz"
UpperAlpha == "ABCDEFGHIJKLMNOPQRSTUVWXYZ"
UpperChar(c) ==
    IF \E i \in 1..26 : SubSeq(LowerAlpha, i, i) = c
    THEN LET i == CHOOSE j \in 1..26 : SubSeq(LowerAlpha, j, j) = c
         IN SubSeq(UpperAlpha, i, i)
    ELSE c

\* cache_key LIKE 'SPXVN%'
LikeSPXVN(k) ==
    /\ Len(k) >= 5
    /\ \A i \in 1..5 : UpperChar(SubSeq(k, i, i)) = SubSeq("SPXVN", i, i)

\* str.startswith("SPXVN")
StartsWithSPXVN(k) == Len(k) >= 5 /\ SubSeq(k, 1, 5) = "SPXVN"

CACHE_TTL == 3 * 24 * 3600

(***************************************************************************)
(* SQL statements on the table product_cache (PRIMARY KEY cache_key).      *)
(***************************************************************************)
\* SELECT items_json, meta_json, ts FROM product_cache WHERE cache_key = k
SelectByKey(T, k) == {r \in T : r.cache_key = k}

\* a DELETE that is never committed
DeleteByKey_uncommitted(T, k) == T

\* DELETE FROM product_cache WHERE cache_key = k
DeleteByKey(T, k) == {r \in T : r.cache_key # k}

\* an upsert whose DO UPDATE leaves ts out
InsertOnConflictUpdate_keep_ts(T, row) ==
    IF \E r \in T : r.cache_key = row.cache_key
    THEN {IF r.cache_key = row.cache_key
          THEN [r EXCEPT !.items_json = row.items_json, !.meta_json = row.meta_json]
          ELSE r : r \in T}
    ELSE T \cup {row}

\* an upsert whose DO UPDATE leaves meta_json out
InsertOnConflictUpdate_keep_meta(T, row) ==
    IF \E r \in T : r.cache_key = row.cache_key
    THEN {IF r.cache_key = row.cache_key
          THEN [r EXCEPT !.items_json = row.items_json, !.ts = row.ts]
          ELSE r : r \in T}
    ELSE T \cup {row}

\* INSERT INTO product_cache(...) VALUES(...) ON CONFLICT(cache_key)
\* DO UPDATE SET items_json = excluded.items_json,
\*               meta_json = excluded.meta_json, ts = excluded.ts
InsertOnConflictUpdate(T, row) ==
    IF \E r \in T : r.cache_key = row.cache_key
    THEN {IF r.cache_key = row.cache_key
          THEN [r EXCEPT !.items_json = row.items_json,
                         !.meta_json = row.meta_json,
                         !.ts = row.ts]
          ELSE r : r \in T}
    ELSE T \cup {row}

\* main.py:92-93, db_backend.py:63-64   the upsert goes on to its statement
UpsertGuard(cache_key, items) == Truthy(cache_key) /\ Truthy(items)

(***************************************************************************)
(* main.py: SQLite helpers                                                 *)
(***************************************************************************)
\* main.py:94-95   if ts is None: ts = int(time())
main_upsert_ts(ts, t) == IF ts = None THEN t ELSE ts.n

\* json.dumps(meta) without the `or {}`
main_upsert_row_raw_meta(cache_key, items, ts, meta, t) ==
    [cache_key  |-> cache_key.s,
     items_json |-> SqlText(JsonDumps(items)),
     meta_json  |-> SqlText(JsonDumps(meta)),
     ts         |-> main_upsert_ts(ts, t)]

\* main.py:101   the row written by db_upsert
main_upsert_row(cache_key, items, ts, meta, t) ==
    [cache_key  |-> cache_key.s,
     items_json |-> SqlText(JsonDumps(items)),
     meta_json  |-> SqlText(JsonDumps(Or(meta, Dict(<<>>)))),
     ts         |-> main_upsert_ts(ts, t)]

\* a guard that forgets the items
main_db_upsert_key_only(T, cache_key, items, ts, meta, t) ==
    IF ~Truthy(cache_key) THEN T
    ELSE InsertOnConflictUpdate(T, main_upsert_row(cache_key, items, ts, meta, t))

\* main.py:91-105
main_db_upsert(T, cache_key, items, ts, meta, t) ==
    IF ~Truthy(cache_key) \/ ~Truthy(items) THEN T
    ELSE InsertOnConflictUpdate(T, main_upsert_row(cache_key, items, ts, meta, t))

\* main.py:117   int(time()) - int(ts) > CACHE_TTL
main_get_expired(ts, t) == t - ts > CACHE_TTL

\* main.py:107-128; the result is the table afterwards, the returned pair
\* and whether the call raised
main_db_get(T, cache_key, t) ==
    IF ~Truthy(cache_key)
    THEN [T |-> T, items |-> None, meta |-> None, raised |-> FALSE]
    ELSE LET rows == SelectByKey(T, cache_key.s) IN
         IF rows = {}
         THEN [T |-> T, items |-> None, meta |-> None, raised |-> FALSE]
         ELSE LET row == CHOOSE r \in rows : TRUE
                  i == LoadColumn(row.items_json)
                  m == LoadColumn(row.meta_json)
              IN IF main_get_expired(row.ts, t)
                 THEN [T |-> DeleteByKey(T, cache_key.s),
                       items |-> None, meta |-> None, raised |-> FALSE]
                 ELSE IF ~i.ok \/ ~m.ok
                 THEN [T |-> T, items |-> None, meta |-> None, raised |-> TRUE]
                 ELSE [T |-> T, items |-> i.v, meta |-> m.v, raised |-> FALSE]

\* main.py:131,135   ts >= cutoff
main_list_live(ts, t) == ts >= t - CACHE_TTL

\* the orderings of a set of rows by ts DESC (rows of equal ts in any order)
OrderByTsDesc(R) ==
    {s \in [1..Cardinality(R) -> R] :
        /\ \A i, j \in 1..Cardinality(R) : i # j => s[i] # s[j]
        /\ \A i, j \in 1..Cardinality(R) : i < j => s[i].ts >= s[j].ts}

\* LIMIT n of a result; a negative LIMIT means no limit in SQLite
Limit(s, n) == IF n < 0 \/ n >= Len(s) THEN s ELSE SubSeq(s, 1, n)

\* main.py:130-142; the set of lists the SELECT may return
main_db_list_spx_keys(T, limit, t) ==
    LET R == {r \in T : LikeSPXVN(r.cache_key) /\ main_list_live(r.ts, t)}
    IN {[i \in 1..Len(Limit(s, limit)) |-> s[i].cache_key] : s \in OrderByTsDesc(R)}

\* ts <= cutoff
main_purge_deletes_le(ts, t) == ts <= t - CACHE_TTL

\* main.py:147-148   DELETE ... WHERE ts < cutoff
main_purge_deletes(ts, t) == ts < t - CACHE_TTL

\* a purge whose DELETE is never committed
main_db_purge_expired_uncommitted(T, t) == T

\* main.py:144-151
main_db_purge_expired(T, t) == {r \in T : ~main_purge_deletes(r.ts, t)}

(***************************************************************************)
(* db_backend.py: the embedded (sqlite3) and the remote (libsql) branch,   *)
(* selected by USE_TURSO.                                                  *)
(***************************************************************************)
\* db_backend.py:65   ts = ts or _now()
backend_upsert_ts(ts, t) == IF Truthy(ts) THEN ts.n ELSE t

\* db_backend.py:66-67,75,86   the row written by db_upsert
backend_upsert_row(cache_key, items, ts, meta, t) ==
    [cache_key  |-> cache_key.s,
     items_json |-> SqlText(JsonDumps(items)),
     meta_json  |-> SqlText(JsonDumps(Or(meta, Dict(<<>>)))),
     ts         |-> backend_upsert_ts(ts, t)]

\* db_backend.py:62-90 (both branches issue the same statement)
backend_db_upsert(T, cache_key, items, ts, meta, t, turso) ==
    IF ~Truthy(cache_key) \/ ~Truthy(items) THEN T
    ELSE InsertOnConflictUpdate(T, backend_upsert_row(cache_key, items, ts, meta, t))

\* the remote branch with ts <= cutoff
backend_get_expired_le(ts, t, turso) ==
    IF turso THEN ts <= t - CACHE_TTL ELSE t - ts > CACHE_TTL

\* db_backend.py:98,110 (remote)   ts < cutoff
\* db_backend.py:130 (embedded)    _now() - int(ts) > CACHE_TTL
backend_get_expired(ts, t, turso) ==
    IF turso THEN ts < t - CACHE_TTL ELSE t - ts > CACHE_TTL

\* db_backend.py:93-142
backend_db_get(T, cache_key, t, turso) ==
    IF ~Truthy(cache_key)
    THEN [T |-> T, items |-> None, meta |-> None, raised |-> FALSE]
    ELSE LET rows == SelectByKey(T, cache_key.s) IN
         IF rows = {}
         THEN [T |-> T, items |-> None, meta |-> None, raised |-> FALSE]
         ELSE LET row == CHOOSE r \in rows : TRUE
                  i == LoadColumn(row.items_json)
                  m == LoadColumn(row.meta_json)
              IN IF backend_get_expired(row.ts, t, turso)
                 THEN [T |-> DeleteByKey(T, cache_key.s),
                       items |-> None, meta |-> None, raised |-> FALSE]
                 ELSE IF ~i.ok \/ ~m.ok
                 THEN [T |-> T, items |-> None, meta |-> None, raised |-> TRUE]
                 ELSE [T |-> T, items |-> i.v, meta |-> m.v, raised |-> FALSE]

\* db_backend.py:146,151,162   ts >= cutoff
backend_list_live(ts, t, turso) == ts >= t - CACHE_TTL

\* db_backend.py:145-168
backend_db_list_spx_keys(T, limit, t, turso) ==
    LET R == {r \in T : LikeSPXVN(r.cache_key) /\ backend_list_live(r.ts, t, turso)}
    IN {[i \in 1..Len(Limit(s, limit)) |-> s[i].cache_key] : s \in OrderByTsDesc(R)}

\* db_backend.py:172,175,180   DELETE ... WHERE ts < cutoff
backend_purge_deletes(ts, t, turso) == ts < t - CACHE_TTL

\* db_backend.py:171-183
backend_db_purge_expired(T, t, turso) ==
    {r \in T : ~backend_purge_deletes(r.ts, t, turso)}

(***************************************************************************)
(* db_init: the schema of the store.  A table made by an older version has *)
(* no meta_json column, and its rows no meta_json value.                   *)
(***************************************************************************)
\* CREATE TABLE IF NOT EXISTS product_cache (cache_key, items_json, meta_json, ts)
CreateTableIfNotExists(sch) == IF sch = "absent" THEN "current" ELSE sch

\* ALTER TABLE product_cache ADD COLUMN meta_json TEXT: the rows get a NULL
AddColumnMeta(T) ==
    {[cache_key |-> r.cache_key, items_json |-> r.items_json,
      meta_json |-> SqlNull, ts |-> r.ts] : r \in T}

\* main.py:71-89: the ALTER raises on a table that has the column, and the
\* `except Exception: pass` drops that
main_db_init(T, sch) ==
    IF CreateTableIfNotExists(sch) = "legacy"
    THEN [T |-> AddColumnMeta(T), schema |-> "current", raised |-> FALSE]
    ELSE [T |-> T, schema |-> CreateTableIfNotExists(sch), raised |-> FALSE]

\* db_backend.py:32-59: the remote branch issues the CREATE TABLE alone
backend_db_init(T, sch, turso) ==
    IF turso
    THEN [T |-> T, schema |-> CreateTableIfNotExists(sch), raised |-> FALSE]
    ELSE IF CreateTableIfNotExists(sch) = "legacy"
    THEN [T |-> AddColumnMeta(T), schema |-> "current", raised |-> FALSE]
    ELSE [T |-> T, schema |-> CreateTableIfNotExists(sch), raised |-> FALSE]

(***************************************************************************)
(* main.py: the cache orchestrator (RAM + SQLite)                          *)
(***************************************************************************)
\* an update in place of the entry object, which every key that holds the same
\* object sees
Put_in_place(M, k, e) ==
    [x \in DOMAIN M \cup {k} |->
        IF x = k \/ (k \in DOMAIN M /\ M[x] = M[k]) THEN e ELSE M[x]]

\* PRODUCT_CACHE[k] = e
Put(M, k, e) == [x \in DOMAIN M \cup {k} |-> IF x = k THEN e ELSE M[x]]

\* main.py:159-160   the entry built from the order
order_entry(order, t) ==
    [items |-> Or(order.product_info, List(<<>>)),
     meta  |-> Dict(<< <<"address", Or(order.address, Dict(<<>>))>> >>),
     ts    |-> t]

\* a store that writes under the order_id alone
cache_store_from_order_oid_only(M, T, order, t) ==
    LET items == Or(order.product_info, List(<<>>))
        entry == order_entry(order, t)
        oid   == order.order_id
    IN IF ~Truthy(items) \/ ~Truthy(oid) THEN [M |-> M, T |-> T]
       ELSE [M |-> Put(M, oid.s, entry),
             T |-> main_db_upsert(T, oid, items, Num(entry.ts), entry.meta, t)]

\* a store whose guard is `if product_info is None: return`
cache_store_from_order_none_only(M, T, order, t) ==
    LET items == Or(order.product_info, List(<<>>))
        entry == order_entry(order, t)
        oid   == order.order_id
        tn    == order.tracking_number
        M1 == IF Truthy(oid) THEN Put(M, oid.s, entry) ELSE M
        M2 == IF Truthy(tn) THEN Put(M1, tn.s, entry) ELSE M1
        T1 == IF Truthy(oid)
              THEN main_db_upsert(T, oid, items, Num(entry.ts), entry.meta, t) ELSE T
        T2 == IF Truthy(tn)
              THEN main_db_upsert(T1, tn, items, Num(entry.ts), entry.meta, t) ELSE T1
    IN IF order.product_info = None THEN [M |-> M, T |-> T] ELSE [M |-> M2, T |-> T2]

\* a store without the `if not items: return`
cache_store_from_order_no_guard(M, T, order, t) ==
    LET items == Or(order.product_info, List(<<>>))
        entry == order_entry(order, t)
        oid   == order.order_id
        tn    == order.tracking_number
        M1 == IF Truthy(oid) THEN Put(M, oid.s, entry) ELSE M
        M2 == IF Truthy(tn) THEN Put(M1, tn.s, entry) ELSE M1
        T1 == IF Truthy(oid)
              THEN main_db_upsert(T, oid, items, Num(entry.ts), entry.meta, t) ELSE T
        T2 == IF Truthy(tn)
              THEN main_db_upsert(T1, tn, items, Num(entry.ts), entry.meta, t) ELSE T1
    IN [M |-> M2, T |-> T2]

\* main.py:154-175; the result is the mapping and the table afterwards
cache_store_from_order(M, T, order, t) ==
    LET items == Or(order.product_info, List(<<>>))
        entry == order_entry(order, t)
        oid   == order.order_id
        tn    == order.tracking_number
        M1 == IF Truthy(oid) THEN Put(M, oid.s, entry) ELSE M
        M2 == IF Truthy(tn) THEN Put(M1, tn.s, entry) ELSE M1
        T1 == IF Truthy(oid)
              THEN main_db_upsert(T, oid, items, Num(entry.ts), entry.meta, t) ELSE T
        T2 == IF Truthy(tn)
              THEN main_db_upsert(T1, tn, items, Num(entry.ts), entry.meta, t) ELSE T1
    IN IF ~Truthy(items) THEN [M |-> M, T |-> T] ELSE [M |-> M2, T |-> T2]

\* a strict comparison with the TTL
memory_live_lt(M, k, t) == k \in DOMAIN M /\ t - M[k].ts < CACHE_TTL

\* main.py:182   e and (int(time()) - int(e["ts"]) <= CACHE_TTL)
memory_live(M, k, t) == k \in DOMAIN M /\ t - M[k].ts <= CACHE_TTL

\* main.py:186   the entry written back after a durable hit
backfill_entry(items, meta, t) ==
    [items |-> items, meta |-> Or(meta, Dict(<<>>)), ts |-> t]

\* a backfill that keeps the ts of the durable row
cache_get_all_row_ts(M, T, key, t) ==
    IF ~Truthy(key)
    THEN [M |-> M, T |-> T, items |-> None, meta |-> None,
          durable |-> FALSE, raised |-> FALSE]
    ELSE IF memory_live(M, key.s, t)
    THEN [M |-> M, T |-> T, items |-> M[key.s].items, meta |-> M[key.s].meta,
          durable |-> FALSE, raised |-> FALSE]
    ELSE LET g == main_db_get(T, key, t) IN
         IF g.raised
         THEN [M |-> M, T |-> g.T, items |-> None, meta |-> None,
               durable |-> TRUE, raised |-> TRUE]
         ELSE [M |-> IF Truthy(g.items)
                     THEN Put(M, key.s,
                              backfill_entry(g.items, g.meta,
                                  (CHOOSE r \in SelectByKey(T, key.s) : TRUE).ts))
                     ELSE M,
               T |-> g.T, items |-> g.items, meta |-> g.meta,
               durable |-> TRUE, raised |-> FALSE]

\* a backfill without the `if items:`
cache_get_all_backfill_miss(M, T, key, t) ==
    IF ~Truthy(key)
    THEN [M |-> M, T |-> T, items |-> None, meta |-> None,
          durable |-> FALSE, raised |-> FALSE]
    ELSE IF memory_live(M, key.s, t)
    THEN [M |-> M, T |-> T, items |-> M[key.s].items, meta |-> M[key.s].meta,
          durable |-> FALSE, raised |-> FALSE]
    ELSE LET g == main_db_get(T, key, t) IN
         IF g.raised
         THEN [M |-> M, T |-> g.T, items |-> None, meta |-> None,
               durable |-> TRUE, raised |-> TRUE]
         ELSE [M |-> Put(M, key.s, backfill_entry(g.items, g.meta, t)),
               T |-> g.T, items |-> g.items, meta |-> g.meta,
               durable |-> TRUE, raised |-> FALSE]

\* main.py:177-187; durable tells whether db_get was called
cache_get_all(M, T, key, t) ==
    IF ~Truthy(key)
    THEN [M |-> M, T |-> T, items |-> None, meta |-> None,
          durable |-> FALSE, raised |-> FALSE]
    ELSE IF memory_live(M, key.s, t)
    THEN [M |-> M, T |-> T, items |-> M[key.s].items, meta |-> M[key.s].meta,
          durable |-> FALSE, raised |-> FALSE]
    ELSE LET g == main_db_get(T, key, t) IN
         IF g.raised
         THEN [M |-> M, T |-> g.T, items |-> None, meta |-> None,
               durable |-> TRUE, raised |-> TRUE]
         ELSE [M |-> IF Truthy(g.items)
                     THEN Put(M, key.s, backfill_entry(g.items, g.meta, t)) ELSE M,
               T |-> g.T, items |-> g.items, meta |-> g.meta,
               durable |-> TRUE, raised |-> FALSE]

(***************************************************************************)
(* The helpers when the store fails.  `bad` is the set of statements       *)
(* ("SELECT", "INSERT", "DELETE") whose execute or commit raises in this   *)
(* call; `failed` in the result is the subset the call really issued.      *)
(***************************************************************************)
\* a call that returns or raises without a result
NoResult(T, raised, failed) ==
    [T |-> T, items |-> None, meta |-> None, raised |-> raised, failed |-> failed]
\* a call none of whose statements failed
Clean(r) == [T |-> r.T, items |-> r.items, meta |-> r.meta, raised |-> r.raised,
             failed |-> {}]

\* main.py:91-105: no try/except, the failure leaves through the finally
main_db_upsert_failing(T, cache_key, items, ts, meta, t, bad) ==
    IF UpsertGuard(cache_key, items) /\ "INSERT" \in bad
    THEN [T |-> T, raised |-> TRUE, failed |-> {"INSERT"}]
    ELSE [T |-> main_db_upsert(T, cache_key, items, ts, meta, t),
          raised |-> FALSE, failed |-> {}]

\* main.py:107-128: a failing SELECT leaves through the finally; a failing
\* DELETE (or its commit) is caught by `except Exception: pass` at 121-122 and
\* the call returns None, None
main_db_get_failing(T, cache_key, t, bad) ==
    IF Truthy(cache_key) /\ "SELECT" \in bad
    THEN NoResult(T, TRUE, {"SELECT"})
    ELSE IF /\ Truthy(cache_key)
            /\ "DELETE" \in bad
            /\ \E r \in SelectByKey(T, cache_key.s) : main_get_expired(r.ts, t)
    THEN NoResult(T, FALSE, {"DELETE"})
    ELSE Clean(main_db_get(T, cache_key, t))

\* main.py:130-142
main_db_list_spx_keys_failing(T, limit, t, bad) ==
    IF "SELECT" \in bad
    THEN [keys |-> {<<>>}, raised |-> TRUE, failed |-> {"SELECT"}]
    ELSE [keys |-> main_db_list_spx_keys(T, limit, t), raised |-> FALSE, failed |-> {}]

\* main.py:144-151
main_db_purge_expired_failing(T, t, bad) ==
    IF "DELETE" \in bad
    THEN [T |-> T, raised |-> TRUE, failed |-> {"DELETE"}]
    ELSE [T |-> main_db_purge_expired(T, t), raised |-> FALSE, failed |-> {}]

\* db_backend.py:62-90
backend_db_upsert_failing(T, cache_key, items, ts, meta, t, turso, bad) ==
    IF UpsertGuard(cache_key, items) /\ "INSERT" \in bad
    THEN [T |-> T, raised |-> TRUE, failed |-> {"INSERT"}]
    ELSE [T |-> backend_db_upsert(T, cache_key, items, ts, meta, t, turso),
          raised |-> FALSE, failed |-> {}]

\* db_backend.py:93-142: the remote branch issues its DELETE bare (111), the
\* embedded branch inside try / except Exception: pass (131-135)
backend_db_get_failing(T, cache_key, t, turso, bad) ==
    IF Truthy(cache_key) /\ "SELECT" \in bad
    THEN NoResult(T, TRUE, {"SELECT"})
    ELSE IF /\ Truthy(cache_key)
            /\ "DELETE" \in bad
            /\ \E r \in SelectByKey(T, cache_key.s) : backend_get_expired(r.ts, t, turso)
    THEN NoResult(T, turso, {"DELETE"})
    ELSE Clean(backend_db_get(T, cache_key, t, turso))

\* db_backend.py:145-168
backend_db_list_spx_keys_failing(T, limit, t, turso, bad) ==
    IF "SELECT" \in bad
    THEN [keys |-> {<<>>}, raised |-> TRUE, failed |-> {"SELECT"}]
    ELSE [keys |-> backend_db_list_spx_keys(T, limit, t, turso),
          raised |-> FALSE, failed |-> {}]

\* db_backend.py:171-183
backend_db_purge_expired_failing(T, t, turso, bad) ==
    IF "DELETE" \in bad
    THEN [T |-> T, raised |-> TRUE, failed |-> {"DELETE"}]
    ELSE [T |-> backend_db_purge_expired(T, t, turso), raised |-> FALSE, failed |-> {}]

\* a lookup whose db_get had a failing statement: nothing is backfilled
FailedLookup(M, g) ==
    [M |-> M, T |-> g.T, items |-> None, meta |-> None,
     durable |-> TRUE, raised |-> g.raised, failed |-> g.failed]
\* a lookup none of whose statements failed
CleanLookup(c) ==
    [M |-> c.M, T |-> c.T, items |-> c.items, meta |-> c.meta,
     durable |-> c.durable, raised |-> c.raised, failed |-> {}]

\* main.py:177-187: nothing around db_get catches
cache_get_all_failing(M, T, key, t, bad) ==
    IF /\ Truthy(key)
       /\ ~memory_live(M, key.s, t)
       /\ main_db_get_failing(T, key, t, bad).failed # {}
    THEN FailedLookup(M, main_db_get_failing(T, key, t, bad))
    ELSE CleanLookup(cache_get_all(M, T, key, t))

\* the outcome of a db_upsert that cache_store_from_order does not reach
NotIssued(T) == [T |-> T, raised |-> FALSE, failed |-> {}]

\* main.py:154-175 when the db_upsert of `bad` ("oid", "tn" or "none") fails:
\* the memory writes of 166-169 are done by then, the exception of 173 skips
\* 174-175, and nothing catches it or takes the memory entries back
cache_store_from_order_failing(M, T, order, t, bad) ==
    LET items == Or(order.product_info, List(<<>>))
        entry == order_entry(order, t)
        oid   == order.order_id
        tn    == order.tracking_number
        M1 == IF Truthy(oid) THEN Put(M, oid.s, entry) ELSE M
        M2 == IF Truthy(tn) THEN Put(M1, tn.s, entry) ELSE M1
        U1 == IF Truthy(oid)
              THEN main_db_upsert_failing(T, oid, items, Num(entry.ts), entry.meta, t,
                                          IF bad = "oid" THEN {"INSERT"} ELSE {})
              ELSE NotIssued(T)
        U2 == IF Truthy(tn) /\ ~U1.raised
              THEN main_db_upsert_failing(U1.T, tn, items, Num(entry.ts), entry.meta, t,
                                          IF bad = "tn" THEN {"INSERT"} ELSE {})
              ELSE U1
    IN IF ~Truthy(items) THEN [M |-> M, T |-> T, raised |-> FALSE, failed |-> {}]
       ELSE [M |-> M2, T |-> U2.T, raised |-> U2.raised, failed |-> U2.failed]

(***************************************************************************)
(* The request handlers of main.py, as far as they touch the cache.  A     *)
(* handler returns the mapping and the table afterwards, the replies it    *)
(* sent in order, whether an exception left it, and the statements that    *)
(* failed on the way.                                                      *)
(***************************************************************************)
\* the value of an expression e, written Only({e}) or, to name it v in what
\* follows, Only({f(v) : v \in {e}}): e is computed once
Only(S) == CHOOSE x \in S : TRUE

Handled(M, T, replies, raised, failed) ==
    [M |-> M, T |-> T, replies |-> replies, raised |-> raised, failed |-> failed]

\* the db_upsert of cache_store_from_order that meets a failing INSERT
StoreBad(order, bad) ==
    IF "INSERT" \notin bad THEN "none"
    ELSE IF Truthy(order.order_id) THEN "oid" ELSE "tn"

\* main.py:447: the tracking number of an order that has none yet (the
\* source spells it in Vietnamese, with diacritics)
PendingMarker == "Dang cho"

\* main.py:261-272: the order made up for a DeadCookie answer; it has no
\* product_info
DeadCookieOrder ==
    [product_info |-> None,
     address |-> Dict(<< <<"shipping_name", Str("DeadCookie")>> >>),
     order_id |-> Str("DeadCookie"), tracking_number |-> Str("DeadCookie")]

\* main.py:276-283: each order detail is appended and stored; an exception
\* of cache_store_from_order is logged and the loop goes on
RECURSIVE parse_order_details(_, _, _, _, _)
parse_order_details(M, T, details, t, bad) ==
    IF details = <<>> THEN [M |-> M, T |-> T, failed |-> {}]
    ELSE Only({Only({[M |-> rest.M, T |-> rest.T, failed |-> s.failed \cup rest.failed] :
                        rest \in {parse_order_details(s.M, s.T, Tail(details), t, bad)}}) :
                  s \in {cache_store_from_order_failing(M, T, Head(details), t,
                                                        StoreBad(Head(details), bad))}})

\* the orders one entry of allOrderDetails contributes, with their noOrder
new_orders_of(group) ==
    IF group.dead THEN << [order |-> DeadCookieOrder, noOrder |-> TRUE] >>
    ELSE [i \in 1..Len(group.orderDetails) |->
             [order |-> group.orderDetails[i], noOrder |-> FALSE]]

\* main.py:255-283
RECURSIVE parse_orders_from_api(_, _, _, _, _)
parse_orders_from_api(M, T, allOrderDetails, t, bad) ==
    IF allOrderDetails = <<>> THEN [orders |-> <<>>, M |-> M, T |-> T, failed |-> {}]
    ELSE Only({Only({[orders |-> new_orders_of(Head(allOrderDetails)) \o rest.orders,
                      M |-> rest.M, T |-> rest.T, failed |-> p.failed \cup rest.failed] :
                        rest \in {parse_orders_from_api(p.M, p.T, Tail(allOrderDetails),
                                                        t, bad)}}) :
                  p \in {IF Head(allOrderDetails).dead
                         THEN [M |-> M, T |-> T, failed |-> {}]
                         ELSE parse_order_details(M, T, Head(allOrderDetails).orderDetails,
                                                  t, bad)}})

\* main.py:454-459 after a cache_store_from_order that returned s: the purge
\* runs only if the store did not raise, and `except Exception` takes both
store_then_purge(s, t, bad) ==
    IF s.raised THEN [M |-> s.M, T |-> s.T, failed |-> s.failed]
    ELSE [M |-> s.M, T |-> main_db_purge_expired_failing(s.T, t, bad).T,
          failed |-> s.failed \cup main_db_purge_expired_failing(s.T, t, bad).failed]

\* main.py:440-521 once parse_orders_from_api returned p
cookie_orders(p, t, bad) ==
    IF p.orders = <<>>
    THEN Handled(p.M, p.T, <<"calling", "no_orders">>, FALSE, p.failed)
    ELSE IF Head(p.orders).order.tracking_number = Str(PendingMarker)
    THEN Handled(p.M, p.T, <<"calling", "banned">>, FALSE, p.failed)
    ELSE IF Head(p.orders).noOrder
    THEN Handled(p.M, p.T, <<"calling", "dead_cookie">>, FALSE, p.failed)
    ELSE Only({Handled(c.M, c.T, <<"calling", "result">>, FALSE, p.failed \cup c.failed) :
                  c \in {Only({store_then_purge(s, t, bad) :
                                s \in {cache_store_from_order_failing(
                                          p.M, p.T, Head(p.orders).order, t,
                                          StoreBad(Head(p.orders).order, bad))}})}})

\* main.py:430-521, the cookie path of handle_input_text; api_data is what
\* call_shopee_api returned
handle_cookie(M, T, api_data, t, bad) ==
    IF api_data.error THEN Handled(M, T, <<"calling", "api_error">>, FALSE, {})
    ELSE Only({cookie_orders(p, t, bad) :
                  p \in {parse_orders_from_api(M, T, api_data.allOrderDetails, t, bad)}})

\* main.py:374-379: the lookups of the SPX path, in order, until one has
\* items; an exception of cache_get_all leaves the loop and the handler
RECURSIVE spx_lookups(_, _, _, _, _)
spx_lookups(M, T, keys, t, bad) ==
    IF keys = <<>>
    THEN [M |-> M, T |-> T, items |-> None, raised |-> FALSE, failed |-> {}]
    ELSE IF ~Truthy(Head(keys)) THEN spx_lookups(M, T, Tail(keys), t, bad)
    ELSE Only({IF c.raised \/ Truthy(c.items)
               THEN [M |-> c.M, T |-> c.T, items |-> c.items, raised |-> c.raised,
                     failed |-> c.failed]
               ELSE Only({[rest EXCEPT !.failed = c.failed \cup rest.failed] :
                             rest \in {spx_lookups(c.M, c.T, Tail(keys), t, bad)}}) :
                  c \in {cache_get_all_failing(M, T, Head(keys), t, bad)}})

\* main.py:380-427 once the lookups returned c
spx_reply(c) ==
    IF c.raised THEN Handled(c.M, c.T, <<"searching">>, TRUE, c.failed)
    ELSE Handled(c.M, c.T,
                 <<"searching", IF Truthy(c.items) THEN "products" ELSE "no_products">>,
                 FALSE, c.failed)

\* main.py:355-427, the SPX path of handle_input_text; spx_data is what
\* call_spx_api returned for the upper-cased code spx_tn
handle_spx(M, T, spx_tn, spx_data, t, bad) ==
    IF spx_data.error THEN Handled(M, T, <<"searching", "spx_error">>, FALSE, {})
    ELSE Only({spx_reply(c) :
                  c \in {spx_lookups(M, T, <<spx_data.client_order_id, spx_data.sls_tn,
                                            spx_tn>>, t, bad)}})

\* main.py:565-569: the keys of PRODUCT_CACHE that list_cmd falls back to, in
\* the order of the dict
memory_spx_keys(M, t) ==
    LET K == {k \in DOMAIN M : StartsWithSPXVN(k) /\ M[k].ts >= t - CACHE_TTL}
    IN {Limit(s, 50) : s \in {q \in [1..Cardinality(K) -> K] :
                                 \A i, j \in 1..Cardinality(K) : i # j => q[i] # q[j]}}

\* main.py:579
max_rows == 20

\* main.py:574-606: one cache_get_all for each listed key, at most max_rows
RECURSIVE list_lookups(_, _, _, _, _)
list_lookups(M, T, keys, t, bad) ==
    IF keys = <<>> THEN [M |-> M, T |-> T, raised |-> FALSE, failed |-> {}]
    ELSE Only({IF c.raised
               THEN [M |-> c.M, T |-> c.T, raised |-> TRUE, failed |-> c.failed]
               ELSE Only({[rest EXCEPT !.failed = c.failed \cup rest.failed] :
                             rest \in {list_lookups(c.M, c.T, Tail(keys), t, bad)}}) :
                  c \in {cache_get_all_failing(M, T, Str(Head(keys)), t, bad)}})

\* main.py:608-611 once the lookups returned r
list_reply(r) ==
    Handled(r.M, r.T, IF r.raised THEN <<>> ELSE <<"list">>, r.raised, r.failed)

\* main.py:562-611; l is what db_list_spx_keys(limit=50) did, keys the list
\* it returned, fallback the keys of PRODUCT_CACHE in the order of the dict
list_cmd(M, T, l, keys, fallback, t, bad) ==
    IF l.raised THEN Handled(M, T, <<>>, TRUE, l.failed)
    ELSE IF keys = <<>> /\ fallback = <<>> THEN Handled(M, T, <<"empty">>, FALSE, {})
    ELSE Only({list_reply(r) :
                  r \in {list_lookups(M, T,
                                      Limit(IF keys # <<>> THEN keys ELSE fallback, max_rows),
                                      t, bad)}})

(***************************************************************************)
(* Inputs                                                                  *)
(***************************************************************************)
ItemsA == List(<< Dict(<< <<"name", Str("Shirt")>>, <<"amount", Num(2)>> >>) >>)
ItemsB == List(<< Dict(<< <<"name", Str("Hat")>> >>) >>)
AddrX == Dict(<< <<"shipping_name", Str("X")>> >>)
MetaX == Dict(<< <<"address", AddrX>> >>)

Keys == {"A1", "SPXVN1"}
KeyArgs == {Str("")} \cup {Str(k) : k \in Keys}
\* the orders that carry items: with or without an address, under each
\* combination of keys; and the orders without items
Orders ==
    {[product_info |-> c[1], address |-> c[2], order_id |-> oid, tracking_number |-> tn] :
        c \in {<<ItemsA, AddrX>>, <<ItemsB, None>>},
        oid \in {None, Str("A1")}, tn \in {Str(""), Str("SPXVN1")}}
    \cup
    {[product_info |-> i, address |-> AddrX,
      order_id |-> Str("A1"), tracking_number |-> Str("SPXVN1")] : i \in {None, List(<<>>)}}
\* the keys an order is stored under
OrderKeys(order) ==
    {k.s : k \in {x \in {order.order_id, order.tracking_number} : Truthy(x)}}

Limits == {0, 1, 50}

\* the clock starts late enough for every ts below to be positive
StartTime == 2 * CACHE_TTL
\* how many times the clock advances
MaxTicks == 2
Ticks(t) == ((t - StartTime) \div CACHE_TTL) + ((t - StartTime) % CACHE_TTL)

\* ts arguments of db_upsert: absent, on the TTL boundary, one second past it
TsArgs(t) == {None, Num(t - CACHE_TTL), Num(t - CACHE_TTL - 1)}

\* the arguments of db_upsert: payloads with and without a meta under each
\* key and ts, then an empty key, and empty and absent items
UpsertArgs(t) ==
    {<<Str(k), p[1], ts, p[2]>> :
        k \in Keys, p \in {<<ItemsA, MetaX>>, <<ItemsB, None>>}, ts \in TsArgs(t)}
    \cup {<<Str(""), ItemsA, None, MetaX>>}
    \cup {<<Str(k), i, None, MetaX>> : k \in Keys, i \in {None, List(<<>>)}}

(***************************************************************************)
(* State machine                                                           *)
(***************************************************************************)
EmptyMap == [k \in {} |-> None]
Ret(items, meta) == <<items, meta>>
\* the record of a call: what was called with what, what it returned, whether
\* it raised, whether it went to the durable store, which keys lost their row,
\* whether an upsert met a row ("none", "same", "different"), and which of
\* its statements failed
Call(op, args, ret, raised, durable, deleted, over) ==
    [op |-> op, args |-> args, ret |-> ret, raised |-> raised,
     durable |-> durable, deleted |-> deleted, over |-> over, failed |-> {}]
\* the same record for a call in which the statements of `failed` failed
Failed(c, failed) == [c EXCEPT !.failed = failed]
NoCall(op) == Call(op, <<>>, <<>>, FALSE, FALSE, {}, "none")
KeysOf(T) == {r.cache_key : r \in T}
Write(items, by) == [at |-> now, items |-> items, by |-> by]

USE_TURSO == backend = "libsql"

\* the bot process of main.py, right after import
Init ==
    /\ PRODUCT_CACHE = EmptyMap
    /\ product_cache = {}
    /\ now = StartTime
    /\ backend = "main"
    /\ call = NoCall("import")
    /\ written = EmptyMap
    /\ inflight = EmptyMap
    /\ schema = "current"
    /\ pc = "polling"

\* the durable store on its own, under each implementation of the helpers
InitStore ==
    /\ PRODUCT_CACHE = EmptyMap
    /\ product_cache = {}
    /\ now = StartTime
    /\ backend \in {"main", "sqlite", "libsql"}
    /\ call = NoCall("import")
    /\ written = EmptyMap
    /\ inflight = EmptyMap
    /\ schema = "current"
    /\ pc = "polling"

\* time passes
Tick(d) ==
    /\ Ticks(now + d) <= MaxTicks
    /\ now' = now + d
    /\ call' = NoCall("time")
    /\ UNCHANGED <<PRODUCT_CACHE, product_cache, backend, written, inflight, schema, pc>>

Upsert(T, cache_key, items, ts, meta) ==
    IF backend = "main"
    THEN main_db_upsert(T, cache_key, items, ts, meta, now)
    ELSE backend_db_upsert(T, cache_key, items, ts, meta, now, USE_TURSO)

DbUpsert(cache_key, items, ts, meta) ==
    /\ product_cache' = Upsert(product_cache, cache_key, items, ts, meta)
    /\ call' = Call("db_upsert", <<cache_key, items, ts, meta>>, <<>>, FALSE, TRUE, {},
                    IF ~Truthy(cache_key) \/ SelectByKey(product_cache, cache_key.s) = {}
                    THEN "none"
                    ELSE IF SelectByKey(product_cache, cache_key.s)
                            \subseteq Upsert(product_cache, cache_key, items, ts, meta)
                    THEN "same" ELSE "different")
    /\ written' = IF Truthy(cache_key) /\ Truthy(items)
                  THEN Put(written, cache_key.s, Write(items, "db_upsert"))
                  ELSE written
    /\ UNCHANGED <<PRODUCT_CACHE, now, backend, inflight, schema, pc>>

Get(T, cache_key) ==
    IF backend = "main"
    THEN main_db_get(T, cache_key, now)
    ELSE backend_db_get(T, cache_key, now, USE_TURSO)

DbGet(cache_key) ==
    LET g == Get(product_cache, cache_key) IN
    /\ product_cache' = g.T
    /\ call' = Call("db_get", <<cache_key>>, Ret(g.items, g.meta), g.raised, TRUE,
                    KeysOf(product_cache) \ KeysOf(g.T), "none")
    /\ UNCHANGED <<PRODUCT_CACHE, now, backend, written, inflight, schema, pc>>

ListSpxKeys(T, limit) ==
    IF backend = "main"
    THEN main_db_list_spx_keys(T, limit, now)
    ELSE backend_db_list_spx_keys(T, limit, now, USE_TURSO)

DbListSpxKeys(limit) ==
    /\ \E keys \in ListSpxKeys(product_cache, limit) :
          call' = Call("db_list_spx_keys", <<Num(limit)>>, <<keys>>, FALSE, TRUE, {}, "none")
    /\ UNCHANGED <<PRODUCT_CACHE, product_cache, now, backend, written, inflight, schema, pc>>

PurgeExpired(T) ==
    IF backend = "main"
    THEN main_db_purge_expired(T, now)
    ELSE backend_db_purge_expired(T, now, USE_TURSO)

DbPurgeExpired ==
    /\ product_cache' = PurgeExpired(product_cache)
    /\ call' = Call("db_purge_expired", <<>>, <<>>, FALSE, TRUE,
                    KeysOf(product_cache) \ KeysOf(PurgeExpired(product_cache)), "none")
    /\ UNCHANGED <<PRODUCT_CACHE, now, backend, written, inflight, schema, pc>>

CacheStoreFromOrder(order) ==
    LET s == cache_store_from_order(PRODUCT_CACHE, product_cache, order, now)
        items == Or(order.product_info, List(<<>>))
        w1 == IF Truthy(items) /\ Truthy(order.order_id)
              THEN Put(written, order.order_id.s, Write(items, "cache_store_from_order"))
              ELSE written
        w2 == IF Truthy(items) /\ Truthy(order.tracking_number)
              THEN Put(w1, order.tracking_number.s, Write(items, "cache_store_from_order"))
              ELSE w1
    IN
    /\ PRODUCT_CACHE' = s.M
    /\ product_cache' = s.T
    /\ call' = Call("cache_store_from_order", <<order>>, <<>>, FALSE,
                    Truthy(items) /\ (Truthy(order.order_id) \/ Truthy(order.tracking_number)),
                    {}, "none")
    /\ written' = w2
    /\ UNCHANGED <<now, backend, inflight, schema, pc>>

CacheGetAll(key) ==
    LET g == cache_get_all(PRODUCT_CACHE, product_cache, key, now) IN
    /\ PRODUCT_CACHE' = g.M
    /\ product_cache' = g.T
    /\ call' = Call("cache_get_all", <<key>>, Ret(g.items, g.meta), g.raised, g.durable,
                    KeysOf(product_cache) \ KeysOf(g.T), "none")
    /\ UNCHANGED <<now, backend, written, inflight, schema, pc>>

\* main.py:624-626: a process start. PRODUCT_CACHE is empty again, db_init
\* leaves the rows alone, db_purge_expired runs.
Main ==
    /\ PRODUCT_CACHE' = EmptyMap
    /\ product_cache' = main_db_purge_expired(product_cache, now)
    /\ call' = Call("main", <<>>, <<>>, FALSE, TRUE,
                    KeysOf(product_cache) \ KeysOf(main_db_purge_expired(product_cache, now)),
                    "none")
    /\ UNCHANGED <<now, backend, written, inflight, schema, pc>>

\* what the bot of main.py does with its cache
Next ==
    \/ \E d \in {1, CACHE_TTL} : Tick(d)
    \/ \E o \in Orders : CacheStoreFromOrder(o)
    \/ \E k \in KeyArgs : CacheGetAll(k)
    \/ \E n \in Limits : DbListSpxKeys(n)
    \/ DbPurgeExpired
    \/ Main

Spec == Init /\ [][Next]_vars

\* the durable store called directly
NextStore ==
    \/ Tick(CACHE_TTL)
    \/ \E a \in UpsertArgs(now) : DbUpsert(a[1], a[2], a[3], a[4])
    \/ \E k \in KeyArgs : DbGet(k)
    \/ \E n \in Limits : DbListSpxKeys(n)
    \/ DbPurgeExpired

SpecStore == InitStore /\ [][NextStore]_vars

(***************************************************************************)
(* Concurrent writers: several processes (or threads) inside db_upsert at  *)
(* once, each on its own connection.                                       *)
(***************************************************************************)
MaxWriters == 2
Writers == 1..MaxWriters

\* what the writers call db_upsert with: two different payloads under the same
\* key, one under another key, and one the guard rejects
WriterArgs(t) ==
    {<<Str("A1"), ItemsA, None, MetaX>>,
     <<Str("A1"), ItemsB, Num(t - 1), None>>,
     <<Str("SPXVN1"), ItemsA, None, MetaX>>,
     <<Str("A1"), List(<<>>), None, MetaX>>}

UpsertRow(cache_key, items, ts, meta) ==
    IF backend = "main"
    THEN main_upsert_row(cache_key, items, ts, meta, now)
    ELSE backend_upsert_row(cache_key, items, ts, meta, now)

\* the connection of another writer holds the write lock of the database file
\* between its INSERT and its commit
LockHeld(w) == \E v \in DOMAIN inflight : v # w /\ inflight[v].pc = "commit"

\* a store that may already hold a row of the contended key
InitWriters ==
    /\ PRODUCT_CACHE = EmptyMap
    /\ product_cache \in {{}, {main_upsert_row(Str("A1"), ItemsB, None, MetaX, StartTime - 1)}}
    /\ now = StartTime
    /\ backend \in {"main", "sqlite", "libsql"}
    /\ call = NoCall("import")
    /\ written = EmptyMap
    /\ inflight = EmptyMap
    /\ schema = "current"
    /\ pc = "polling"

\* main.py:91-95, db_backend.py:62-67: the guard, the default ts, the payloads
UpsertBegin(w, a) ==
    /\ w \notin DOMAIN inflight
    /\ inflight' = Put(inflight, w,
          [pc     |-> IF UpsertGuard(a[1], a[2]) THEN "execute" ELSE "done",
           args   |-> a,
           rows   |-> IF UpsertGuard(a[1], a[2])
                      THEN {UpsertRow(a[1], a[2], a[3], a[4])} ELSE {},
           raised |-> FALSE,
           with   |-> {v \in DOMAIN inflight : inflight[v].pc # "done"}])
    /\ UNCHANGED <<PRODUCT_CACHE, product_cache, now, backend, call, written, schema, pc>>

\* main.py:98-103, db_backend.py:78-88 (sqlite3): the INSERT ... ON CONFLICT
\* takes the write lock and stays in the connection's transaction;
\* db_backend.py:70-76 (libsql): one execute on the server
UpsertExecute(w) ==
    /\ w \in DOMAIN inflight /\ inflight[w].pc = "execute"
    /\ IF USE_TURSO
       THEN /\ product_cache' =
                 InsertOnConflictUpdate(product_cache, CHOOSE r \in inflight[w].rows : TRUE)
            /\ inflight' = [inflight EXCEPT ![w].pc = "done"]
       ELSE /\ ~LockHeld(w)
            /\ inflight' = [inflight EXCEPT ![w].pc = "commit"]
            /\ UNCHANGED product_cache
    /\ UNCHANGED <<PRODUCT_CACHE, now, backend, call, written, schema, pc>>

\* sqlite3: the lock is not released within the connection's timeout, the
\* execute raises OperationalError (database is locked)
UpsertLocked(w) ==
    /\ w \in DOMAIN inflight /\ inflight[w].pc = "execute"
    /\ ~USE_TURSO /\ LockHeld(w)
    /\ inflight' = [inflight EXCEPT ![w].pc = "done", ![w].raised = TRUE]
    /\ UNCHANGED <<PRODUCT_CACHE, product_cache, now, backend, call, written, schema, pc>>

\* main.py:103, db_backend.py:88   con.commit()
UpsertCommit(w) ==
    /\ w \in DOMAIN inflight /\ inflight[w].pc = "commit"
    /\ product_cache' =
          InsertOnConflictUpdate(product_cache, CHOOSE r \in inflight[w].rows : TRUE)
    /\ inflight' = [inflight EXCEPT ![w].pc = "done"]
    /\ UNCHANGED <<PRODUCT_CACHE, now, backend, call, written, schema, pc>>

NextWriters ==
    \/ Tick(1)
    \/ \E w \in Writers : \E a \in WriterArgs(now) : UpsertBegin(w, a)
    \/ \E w \in Writers : UpsertExecute(w)
    \/ \E w \in Writers : UpsertLocked(w)
    \/ \E w \in Writers : UpsertCommit(w)

SpecWriters == InitWriters /\ [][NextWriters]_vars

(***************************************************************************)
(* The store when statements fail and when the file holds rows this        *)
(* program did not write: payloads cut short or emptied, rows from before  *)
(* the meta_json column.                                                   *)
(***************************************************************************)
\* at most one statement of a call fails
BadSets == {{}, {"SELECT"}, {"INSERT"}, {"DELETE"}}
\* the statements an operation issues
Issues(op) ==
    CASE op = "db_upsert"        -> {"INSERT"}
      [] op = "db_get"           -> {"SELECT", "DELETE"}
      [] op = "db_list_spx_keys" -> {"SELECT"}
      [] op = "db_purge_expired" -> {"DELETE"}
\* the failures that can show in a call of op
BadFor(op) == {bad \in BadSets : bad \subseteq Issues(op)}

\* a JSON text cut after its first token, and a text cut to nothing
CutText == SqlText(<<Tok("[")>>)
EmptyText == SqlText(<<>>)

FoundRows ==
    {[cache_key |-> k, items_json |-> i, meta_json |-> m, ts |-> ts] :
        k \in {"A1"},
        i \in {SqlText(JsonDumps(ItemsB)), CutText, EmptyText},
        m \in {SqlText(JsonDumps(MetaX)), CutText, SqlNull},
        ts \in {StartTime, StartTime - CACHE_TTL - 1}}

InitFault ==
    /\ PRODUCT_CACHE = EmptyMap
    /\ product_cache \in {{}} \cup {{r} : r \in FoundRows}
    /\ now = StartTime
    /\ backend \in {"main", "sqlite", "libsql"}
    /\ call = NoCall("import")
    /\ written = EmptyMap
    /\ inflight = EmptyMap
    /\ schema = "current"
    /\ pc = "polling"

FaultUpsertArgs ==
    {<<Str(k), ItemsA, None, MetaX>> : k \in Keys} \cup {<<Str("A1"), List(<<>>), None, MetaX>>}

UpsertFailing(T, cache_key, items, ts, meta, bad) ==
    IF backend = "main"
    THEN main_db_upsert_failing(T, cache_key, items, ts, meta, now, bad)
    ELSE backend_db_upsert_failing(T, cache_key, items, ts, meta, now, USE_TURSO, bad)

UpsertReturns(args, u) ==
    /\ product_cache' = u.T
    /\ call' = Failed(Call("db_upsert", args, <<>>, u.raised, TRUE, {}, "none"), u.failed)
    /\ UNCHANGED <<PRODUCT_CACHE, now, backend, written, inflight, schema, pc>>

DbUpsertFailing(cache_key, items, ts, meta, bad) ==
    UpsertReturns(<<cache_key, items, ts, meta>>,
                  UpsertFailing(product_cache, cache_key, items, ts, meta, bad))

GetFailing(T, cache_key, bad) ==
    IF backend = "main"
    THEN main_db_get_failing(T, cache_key, now, bad)
    ELSE backend_db_get_failing(T, cache_key, now, USE_TURSO, bad)

GetReturns(cache_key, g) ==
    /\ product_cache' = g.T
    /\ call' = Failed(Call("db_get", <<cache_key>>, Ret(g.items, g.meta), g.raised, TRUE,
                           KeysOf(product_cache) \ KeysOf(g.T), "none"), g.failed)
    /\ UNCHANGED <<PRODUCT_CACHE, now, backend, written, inflight, schema, pc>>

DbGetFailing(cache_key, bad) ==
    GetReturns(cache_key, GetFailing(product_cache, cache_key, bad))

ListSpxKeysFailing(T, limit, bad) ==
    IF backend = "main"
    THEN main_db_list_spx_keys_failing(T, limit, now, bad)
    ELSE backend_db_list_spx_keys_failing(T, limit, now, USE_TURSO, bad)

ListReturns(limit, l) ==
    /\ \E keys \in l.keys :
          call' = Failed(Call("db_list_spx_keys", <<Num(limit)>>, <<keys>>, l.raised, TRUE,
                              {}, "none"), l.failed)
    /\ UNCHANGED <<PRODUCT_CACHE, product_cache, now, backend, written, inflight, schema, pc>>

DbListSpxKeysFailing(limit, bad) ==
    ListReturns(limit, ListSpxKeysFailing(product_cache, limit, bad))

PurgeExpiredFailing(T, bad) ==
    IF backend = "main"
    THEN main_db_purge_expired_failing(T, now, bad)
    ELSE backend_db_purge_expired_failing(T, now, USE_TURSO, bad)

PurgeReturns(d) ==
    /\ product_cache' = d.T
    /\ call' = Failed(Call("db_purge_expired", <<>>, <<>>, d.raised, TRUE,
                           KeysOf(product_cache) \ KeysOf(d.T), "none"), d.failed)
    /\ UNCHANGED <<PRODUCT_CACHE, now, backend, written, inflight, schema, pc>>

DbPurgeExpiredFailing(bad) == PurgeReturns(PurgeExpiredFailing(product_cache, bad))

LookupReturns(key, g) ==
    /\ PRODUCT_CACHE' = g.M
    /\ product_cache' = g.T
    /\ call' = Failed(Call("cache_get_all", <<key>>, Ret(g.items, g.meta), g.raised,
                           g.durable, KeysOf(product_cache) \ KeysOf(g.T), "none"), g.failed)
    /\ UNCHANGED <<now, backend, written, inflight, schema, pc>>

\* cache_get_all is main.py's and runs on main.py's helpers
CacheGetAllFailing(key, bad) ==
    /\ backend = "main"
    /\ LookupReturns(key, cache_get_all_failing(PRODUCT_CACHE, product_cache, key, now, bad))

NextFault ==
    \/ Tick(CACHE_TTL)
    \/ \E a \in FaultUpsertArgs : \E bad \in BadFor("db_upsert") :
          DbUpsertFailing(a[1], a[2], a[3], a[4], bad)
    \/ \E k \in KeyArgs : \E bad \in BadFor("db_get") : DbGetFailing(k, bad)
    \/ \E n \in Limits : \E bad \in BadFor("db_list_spx_keys") : DbListSpxKeysFailing(n, bad)
    \/ \E bad \in BadFor("db_purge_expired") : DbPurgeExpiredFailing(bad)
    \/ \E k \in KeyArgs : \E bad \in BadFor("db_get") : CacheGetAllFailing(k, bad)

SpecFault == InitFault /\ [][NextFault]_vars

(***************************************************************************)
(* Listing: tracking numbers are stored as the API spelled them            *)
(* (main.py:163-169), so a key may carry the prefix in another letter case.*)
(***************************************************************************)
ListKeys == {"SPXVN1", "SPXVN2", "spxvn3"}

NextList ==
    \/ \E d \in {1, CACHE_TTL} : Tick(d)
    \/ \E k \in ListKeys : DbUpsert(Str(k), ItemsA, None, MetaX)
    \/ \E n \in Limits : DbListSpxKeys(n)

SpecList == InitStore /\ [][NextList]_vars

(***************************************************************************)
(* The cache as a library: the orchestrator and the durable helpers of     *)
(* main.py called in any order by one process.                             *)
(***************************************************************************)
\* an order under both keys, one under the order_id alone, and the orders
\* without items
LibraryOrders ==
    {o \in Orders :
        \/ o.product_info = ItemsA /\ OrderKeys(o) = {"A1", "SPXVN1"}
        \/ o.product_info = ItemsB /\ OrderKeys(o) = {"A1"}
        \/ ~Truthy(o.product_info)}

\* a row of now, a row past the TTL, and the upserts without items
LibraryUpserts(t) ==
    {a \in UpsertArgs(t) :
        \/ a[1] = Str("SPXVN1") /\ a[2] = ItemsB /\ a[3] \in {None, Num(t - CACHE_TTL - 1)}
        \/ a[1] = Str("A1") /\ ~Truthy(a[2])}

NextLibrary ==
    \/ \E d \in {1, CACHE_TTL} : Tick(d)
    \/ \E o \in LibraryOrders : CacheStoreFromOrder(o)
    \/ \E a \in LibraryUpserts(now) : DbUpsert(a[1], a[2], a[3], a[4])
    \/ \E k \in KeyArgs : CacheGetAll(k)
    \/ \E k \in KeyArgs : DbGet(k)
    \/ DbPurgeExpired

SpecLibrary == Init /\ [][NextLibrary]_vars

(***************************************************************************)
(* The same process over time: it restarts, and the sweep of expired rows  *)
(* (db_purge_expired at process start, main.py:626, and after each         *)
(* ingestion, main.py:456) or a db_get of the key keeps coming.            *)
(***************************************************************************)
NextLive ==
    \/ Tick(CACHE_TTL)
    \/ \E o \in LibraryOrders : CacheStoreFromOrder(o)
    \/ \E a \in LibraryUpserts(now) : DbUpsert(a[1], a[2], a[3], a[4])
    \/ \E k \in KeyArgs : CacheGetAll(k)
    \/ \E k \in KeyArgs : DbGet(k)
    \/ DbPurgeExpired
    \/ Main

\* for each key: a sweep, a restart or a db_get of the key that would change
\* the state is not put off forever
Sweeps == \A k \in Keys : WF_vars(DbPurgeExpired \/ Main \/ DbGet(Str(k)))

SpecLive == Init /\ [][NextLive]_vars /\ Sweeps

(***************************************************************************)
(* The store as db_init finds it: no table, a table of the older schema    *)
(* with the rows it holds, or the current table.                           *)
(***************************************************************************)
LegacyRows ==
    {[cache_key |-> k, items_json |-> SqlText(JsonDumps(ItemsB)), ts |-> StartTime - 1] :
        k \in Keys}

InitSchema ==
    /\ PRODUCT_CACHE = EmptyMap
    /\ schema \in {"absent", "legacy", "current"}
    /\ product_cache \in (IF schema = "legacy" THEN SUBSET LegacyRows ELSE {{}})
    /\ now = StartTime
    /\ backend \in {"main", "sqlite", "libsql"}
    /\ call = NoCall("import")
    /\ written = EmptyMap
    /\ inflight = EmptyMap
    /\ pc = "polling"

InitSchemaOf(T, sch) ==
    IF backend = "main" THEN main_db_init(T, sch)
    ELSE backend_db_init(T, sch, USE_TURSO)

InitReturns(i) ==
    /\ product_cache' = i.T
    /\ schema' = i.schema
    /\ call' = Call("db_init", <<>>, <<>>, i.raised, TRUE, {}, "none")
    /\ UNCHANGED <<PRODUCT_CACHE, now, backend, written, inflight, pc>>

DbInit == InitReturns(InitSchemaOf(product_cache, schema))

\* a db_upsert on a store without the table, or without the meta_json column
\* its INSERT names: the statement fails and the call raises
DbUpsertNoColumn(cache_key, items, ts, meta) ==
    /\ schema # "current"
    /\ UpsertGuard(cache_key, items)
    /\ call' = Failed(Call("db_upsert", <<cache_key, items, ts, meta>>, <<>>, TRUE, TRUE,
                           {}, "none"), {"INSERT"})
    /\ UNCHANGED <<PRODUCT_CACHE, product_cache, now, backend, written, inflight, schema, pc>>

DbUpsertCurrent(cache_key, items, ts, meta) ==
    /\ schema = "current"
    /\ DbUpsert(cache_key, items, ts, meta)

NextSchema ==
    \/ Tick(CACHE_TTL)
    \/ DbInit
    \/ \E a \in FaultUpsertArgs : DbUpsertCurrent(a[1], a[2], a[3], a[4])
    \/ \E a \in FaultUpsertArgs : DbUpsertNoColumn(a[1], a[2], a[3], a[4])

SpecSchema == InitSchema /\ [][NextSchema]_vars

(***************************************************************************)
(* Concurrent ingestion: several calls of cache_store_from_order in one    *)
(* process, sharing PRODUCT_CACHE and the store, each statement of         *)
(* main.py:165-175 a step of its own.                                      *)
(***************************************************************************)
IngestOrders ==
    {o \in Orders :
        \/ o.product_info = ItemsA /\ OrderKeys(o) = {"A1", "SPXVN1"}
        \/ o.product_info = ItemsB /\ "A1" \in OrderKeys(o)
        \/ o.product_info = List(<<>>)}

\* main.py:156-163: the guard, the entry with the time of the call, the keys
StoreBegin(w, order) ==
    /\ w \notin DOMAIN inflight
    /\ inflight' = Put(inflight, w,
          [pc    |-> IF Truthy(Or(order.product_info, List(<<>>))) THEN "mem_oid" ELSE "done",
           order |-> order,
           entry |-> order_entry(order, now),
           wrote |-> Truthy(Or(order.product_info, List(<<>>))),
           with  |-> {v \in DOMAIN inflight : inflight[v].pc # "done"}])
    /\ UNCHANGED <<PRODUCT_CACHE, product_cache, now, backend, call, written, schema, pc>>

\* main.py:166-167   if oid: PRODUCT_CACHE[oid] = entry
StoreMemOid(w) ==
    /\ w \in DOMAIN inflight /\ inflight[w].pc = "mem_oid"
    /\ PRODUCT_CACHE' = IF Truthy(inflight[w].order.order_id)
                         THEN Put(PRODUCT_CACHE, inflight[w].order.order_id.s, inflight[w].entry)
                         ELSE PRODUCT_CACHE
    /\ inflight' = [inflight EXCEPT ![w].pc = "mem_tn"]
    /\ UNCHANGED <<product_cache, now, backend, call, written, schema, pc>>

\* main.py:168-169   if tn: PRODUCT_CACHE[tn] = entry
StoreMemTn(w) ==
    /\ w \in DOMAIN inflight /\ inflight[w].pc = "mem_tn"
    /\ PRODUCT_CACHE' = IF Truthy(inflight[w].order.tracking_number)
                         THEN Put(PRODUCT_CACHE, inflight[w].order.tracking_number.s,
                                  inflight[w].entry)
                         ELSE PRODUCT_CACHE
    /\ inflight' = [inflight EXCEPT ![w].pc = "db_oid"]
    /\ UNCHANGED <<product_cache, now, backend, call, written, schema, pc>>

\* what db_upsert(key, items, entry["ts"], meta) makes of the store
StoreUpsert(T, key, entry) ==
    IF Truthy(key) THEN main_db_upsert(T, key, entry.items, Num(entry.ts), entry.meta, now)
    ELSE T

\* main.py:172-173   if oid: db_upsert(oid, items, entry["ts"], meta)
StoreDbOid(w) ==
    /\ w \in DOMAIN inflight /\ inflight[w].pc = "db_oid"
    /\ product_cache' = StoreUpsert(product_cache, inflight[w].order.order_id, inflight[w].entry)
    /\ inflight' = [inflight EXCEPT ![w].pc = "db_tn"]
    /\ UNCHANGED <<PRODUCT_CACHE, now, backend, call, written, schema, pc>>

\* main.py:174-175   if tn: db_upsert(tn, items, entry["ts"], meta)
StoreDbTn(w) ==
    /\ w \in DOMAIN inflight /\ inflight[w].pc = "db_tn"
    /\ product_cache' = StoreUpsert(product_cache, inflight[w].order.tracking_number,
                                    inflight[w].entry)
    /\ inflight' = [inflight EXCEPT ![w].pc = "done"]
    /\ UNCHANGED <<PRODUCT_CACHE, now, backend, call, written, schema, pc>>

NextIngest ==
    \/ Tick(1)
    \/ \E w \in Writers : \E o \in IngestOrders : StoreBegin(w, o)
    \/ \E w \in Writers : StoreMemOid(w)
    \/ \E w \in Writers : StoreMemTn(w)
    \/ \E w \in Writers : StoreDbOid(w)
    \/ \E w \in Writers : StoreDbTn(w)

SpecIngest == Init /\ [][NextIngest]_vars

(***************************************************************************)
(* Ingestion when a statement of the store fails.                          *)
(***************************************************************************)
StoreReturns(order, s) ==
    /\ PRODUCT_CACHE' = s.M
    /\ product_cache' = s.T
    /\ call' = Failed(Call("cache_store_from_order", <<order>>, <<>>, s.raised, TRUE,
                           {}, "none"), s.failed)
    /\ UNCHANGED <<now, backend, written, inflight, schema, pc>>

CacheStoreFromOrderFailing(order, bad) ==
    StoreReturns(order,
                 cache_store_from_order_failing(PRODUCT_CACHE, product_cache, order, now, bad))

NextStoreFault ==
    \/ \E d \in {1, CACHE_TTL} : Tick(d)
    \/ \E o \in IngestOrders : \E bad \in {"none", "oid", "tn"} :
          CacheStoreFromOrderFailing(o, bad)
    \/ \E k \in KeyArgs : \E bad \in BadFor("db_get") : CacheGetAllFailing(k, bad)

SpecStoreFault == Init /\ [][NextStoreFault]_vars

(***************************************************************************)
(* The bot from process start: an entry point (main of main.py, run_bot of *)
(* web_main.py) runs db_init and db_purge_expired, then polls; the         *)
(* handlers run only under run_polling.  The process starts at StartTime   *)
(* on a store left by an earlier run.                                      *)
(***************************************************************************)
\* rows of an earlier run: one still live at the start, one past the TTL
EarlierRows ==
    {[cache_key |-> "SPXVN1", items_json |-> SqlText(JsonDumps(ItemsB)),
      meta_json |-> SqlText(JsonDumps(MetaX)), ts |-> StartTime - 1],
     [cache_key |-> "A1", items_json |-> SqlText(JsonDumps(ItemsB)),
      meta_json |-> SqlText(JsonDumps(MetaX)), ts |-> StartTime - CACHE_TTL - 1]}

InitBot ==
    /\ PRODUCT_CACHE = EmptyMap
    /\ schema \in {"absent", "current"}
    /\ product_cache \in IF schema = "absent" THEN {{}} ELSE SUBSET EarlierRows
    /\ now = StartTime
    /\ backend = "main"
    /\ call = NoCall("import")
    /\ written = EmptyMap
    /\ inflight = EmptyMap
    /\ pc = "import"

\* a call of the entry point on the store
StartupStep(from, to, op, T, sch) ==
    /\ pc = from
    /\ pc' = to
    /\ product_cache' = T
    /\ schema' = sch
    /\ call' = Call(op, <<>>, <<>>, FALSE, TRUE, KeysOf(product_cache) \ KeysOf(T), "none")
    /\ UNCHANGED <<PRODUCT_CACHE, now, backend, written, inflight>>

\* the entry point hands over to the polling loop
RunPolling(from) ==
    /\ pc = from
    /\ pc' = "polling"
    /\ call' = NoCall("run_polling")
    /\ UNCHANGED <<PRODUCT_CACHE, product_cache, now, backend, written, inflight, schema>>

\* main.py:625
MainDbInit ==
    StartupStep("import", "main_init", "db_init",
                main_db_init(product_cache, schema).T, main_db_init(product_cache, schema).schema)
\* main.py:626
MainDbPurgeExpired ==
    StartupStep("main_init", "main_purged", "db_purge_expired",
                main_db_purge_expired(product_cache, now), schema)
\* main.py:628-644
MainRunPolling == RunPolling("main_purged")

\* web_main.py:25, under asyncio.run(_startup()) at 34
WebDbInit ==
    StartupStep("import", "web_init", "db_init",
                main_db_init(product_cache, schema).T, main_db_init(product_cache, schema).schema)
\* web_main.py:26
WebDbPurgeExpired ==
    StartupStep("web_init", "web_purged", "db_purge_expired",
                main_db_purge_expired(product_cache, now), schema)
\* web_main.py:37-52
WebRunPolling == RunPolling("web_purged")

\* the answers of the Shopee API to a cookie
GoodOrder ==
    [product_info |-> ItemsA, address |-> AddrX,
     order_id |-> Str("A1"), tracking_number |-> Str("SPXVN1")]
PendingOrder ==
    [product_info |-> ItemsB, address |-> AddrX,
     order_id |-> Str("A1"), tracking_number |-> Str(PendingMarker)]
PendingBare ==
    [product_info |-> None, address |-> None,
     order_id |-> Str("A1"), tracking_number |-> Str(PendingMarker)]
Dead == [dead |-> TRUE, orderDetails |-> <<>>]
Details(d) == [dead |-> FALSE, orderDetails |-> d]
CookieData ==
    {[error |-> TRUE, allOrderDetails |-> <<>>]}
    \cup {[error |-> FALSE, allOrderDetails |-> a] :
            a \in {<<>>, <<Dead>>, <<Details(<<>>)>>, <<Details(<<GoodOrder>>)>>,
                   <<Details(<<PendingOrder>>)>>, <<Details(<<PendingBare>>)>>,
                   <<Dead, Details(<<GoodOrder>>)>>}}
\* the answers of the SPX API to the code SPXVN1
SpxData ==
    {[error |-> TRUE, client_order_id |-> Str(""), sls_tn |-> Str("")],
     [error |-> FALSE, client_order_id |-> Str("A1"), sls_tn |-> Str("SPXVN1")],
     [error |-> FALSE, client_order_id |-> Str(""), sls_tn |-> Str("")]}

\* a handler ran under the polling loop
HandlerReturns(op, args, h) ==
    /\ pc = "polling"
    /\ PRODUCT_CACHE' = h.M
    /\ product_cache' = h.T
    /\ call' = Failed(Call(op, args, h.replies, h.raised, TRUE,
                           KeysOf(product_cache) \ KeysOf(h.T), "none"), h.failed)
    /\ UNCHANGED <<now, backend, written, inflight, schema, pc>>

HandleCookie(api_data, bad) ==
    \E h \in {handle_cookie(PRODUCT_CACHE, product_cache, api_data, now, bad)} :
        HandlerReturns("handle_input_text", <<"cookie", api_data>>, h)

HandleSpx(spx_data, bad) ==
    \E h \in {handle_spx(PRODUCT_CACHE, product_cache, Str("SPXVN1"), spx_data, now, bad)} :
        HandlerReturns("handle_input_text", <<"spx", spx_data>>, h)

ListCmdOn(l, bad) ==
    \E keys \in l.keys : \E fallback \in memory_spx_keys(PRODUCT_CACHE, now) :
        \E h \in {list_cmd(PRODUCT_CACHE, product_cache, l, keys, fallback, now, bad)} :
            HandlerReturns("list_cmd", <<>>, h)

ListCmd(badList, badGet) ==
    \E l \in {main_db_list_spx_keys_failing(product_cache, 50, now, badList)} :
        ListCmdOn(l, badGet)

NextBot ==
    \/ Tick(CACHE_TTL)
    \/ MainDbInit
    \/ MainDbPurgeExpired
    \/ MainRunPolling
    \/ WebDbInit
    \/ WebDbPurgeExpired
    \/ WebRunPolling
    \/ \E d \in CookieData : \E bad \in BadSets : HandleCookie(d, bad)
    \/ \E d \in SpxData : \E bad \in BadFor("db_get") : HandleSpx(d, bad)
    \/ \E b1 \in BadFor("db_list_spx_keys") : \E b2 \in BadFor("db_get") : ListCmd(b1, b2)

SpecBot == InitBot /\ [][NextBot]_vars

(***************************************************************************)
(* Properties                                                              *)
(***************************************************************************)
\* C1: a lookup of a key, made within the TTL of the last cache_store_from_order
\* that wrote it, returns the items of that order, whatever happened to the
\* other key of the order.
C1_StoredIsFound ==
    (/\ call.op = "cache_get_all"
     /\ Truthy(call.args[1])
     /\ call.args[1].s \in DOMAIN written
     /\ now - written[call.args[1].s].at <= CACHE_TTL)
    => (~call.raised /\ call.ret[1] = written[call.args[1].s].items)

\* the tracking number is found in the durable store after a restart, while
\* the order id has been overwritten with other items
C1_Witness ==
    /\ call.op = "cache_get_all"
    /\ call.args = <<Str("SPXVN1")>>
    /\ call.durable
    /\ call.ret[1] = ItemsA
    /\ "A1" \in DOMAIN written
    /\ written["A1"].items = ItemsB

\* C2: no lookup returns content that was written under its key more than the
\* TTL before the lookup.
C2_NoStaleRead ==
    (/\ call.op = "cache_get_all"
     /\ Truthy(call.args[1])
     /\ call.ret[1] # None
     /\ call.args[1].s \in DOMAIN written)
    => now - written[call.args[1].s].at <= CACHE_TTL

\* a ts argument of db_upsert that is not expired when the call is made
LiveTsArg(ts) == ts = None \/ now - ts.n <= CACHE_TTL
\* db_upsert arguments that pass its guard
Effective(args) == Truthy(args[1]) /\ Truthy(args[2])

\* C3 as stated: db_get right after a db_upsert with a live ts returns exactly
\* the written items and the written meta, an absent meta included.
C3_RoundTripExact ==
    [][(/\ call.op = "db_upsert"
        /\ Effective(call.args)
        /\ LiveTsArg(call.args[3])
        /\ call'.op = "db_get"
        /\ call'.args[1] = call.args[1])
       => call'.ret = <<call.args[2], call.args[4]>>]_vars

\* C3 amended: db_get right after a db_upsert with a live ts returns exactly
\* the written items, and the written meta except that an absent meta comes
\* back as the empty dict.
C3_RoundTrip ==
    [][(/\ call.op = "db_upsert"
        /\ Effective(call.args)
        /\ LiveTsArg(call.args[3])
        /\ call'.op = "db_get"
        /\ call'.args[1] = call.args[1])
       => (/\ ~call'.raised
           /\ call'.ret = <<call.args[2],
                            IF call.args[4] = None THEN Dict(<<>>) ELSE call.args[4]>>)]_vars

\* db_get has returned the items written without a meta, with the empty dict
C3_Witness ==
    /\ call.op = "db_get"
    /\ call.ret = <<ItemsB, Dict(<<>>)>>

\* C4: db_purge_expired deletes the rows with ts < now - TTL and leaves every
\* other row, the ones with ts = now - TTL included, as it was.
C4_PurgeAllAndOnly ==
    [][call'.op = "db_purge_expired"
       => product_cache' = {r \in product_cache : r.ts >= now - CACHE_TTL}]_vars

\* a purge has deleted a row and kept a row on the boundary
C4_Witness ==
    /\ call.op = "db_purge_expired"
    /\ call.deleted # {}
    /\ \E r \in product_cache : r.ts = now - CACHE_TTL

GetExpires(r) ==
    LET g == Get(product_cache, Str(r.cache_key)) IN
    /\ g.items = None
    /\ g.meta = None
    /\ SelectByKey(g.T, r.cache_key) = {}
\* db_purge_expired deletes it
PurgeRemoves(r) == r \notin PurgeExpired(product_cache)
\* db_list_spx_keys, asked for every key, leaves it out
ListOmits(r) ==
    \A l \in ListSpxKeys(product_cache, Cardinality(product_cache)) :
        \A i \in 1..Len(l) : l[i] # r.cache_key

\* C6: at any time and under each implementation, a row is expired for db_get
\* exactly when db_purge_expired would delete it, and a row with an SPXVN key
\* exactly when db_list_spx_keys would leave it out.
C6_SameExpiry ==
    \A r \in product_cache :
        /\ GetExpires(r) <=> PurgeRemoves(r)
        /\ LikeSPXVN(r.cache_key) => (GetExpires(r) <=> ListOmits(r))

\* the remote branch holds an SPXVN row one second past the TTL and a row on
\* the boundary
C6_Witness ==
    /\ backend = "libsql"
    /\ \E r \in product_cache : LikeSPXVN(r.cache_key) /\ r.ts = now - CACHE_TTL - 1
    /\ \E r \in product_cache : r.ts = now - CACHE_TTL
    /\ call.op = "db_get"

\* C7: db_upsert with an empty key, or with empty or absent items, returns
\* without error and leaves every row as it was.
C7_InvalidUpsertIsNoOp ==
    [][(/\ call'.op = "db_upsert"
        /\ ~Effective(call'.args))
       => (product_cache' = product_cache /\ ~call'.raised)]_vars

\* db_upsert was called without items on a key that has a row
C7_Witness ==
    /\ call.op = "db_upsert"
    /\ Truthy(call.args[1])
    /\ ~Truthy(call.args[2])
    /\ SelectByKey(product_cache, call.args[1].s) # {}

\* the row db_upsert's arguments describe
RowOf(args) ==
    [cache_key  |-> args[1].s,
     items_json |-> SqlText(JsonDumps(args[2])),
     meta_json  |-> SqlText(JsonDumps(IF args[4] = None THEN Dict(<<>>) ELSE args[4])),
     ts         |-> IF args[3] = None THEN now ELSE args[3].n]

C9_EmptyOrderIsNoOp ==
    [][/\ (/\ call'.op = "cache_store_from_order"
           /\ ~Truthy(call'.args[1].product_info))
          => UNCHANGED <<PRODUCT_CACHE, product_cache>>
       /\ (/\ call.op = "cache_store_from_order"
           /\ ~Truthy(call.args[1].product_info)
           /\ PRODUCT_CACHE = EmptyMap
           /\ product_cache = {}
           /\ call'.op = "cache_get_all"
           /\ call'.args[1] \in {call.args[1].order_id, call.args[1].tracking_number})
          => (call'.ret = <<None, None>> /\ ~call'.raised)]_vars

\* an order with both keys and an empty product_info was stored over a cache
\* that holds both keys
C9_Witness ==
    /\ call.op = "cache_store_from_order"
    /\ call.args[1].product_info = List(<<>>)
    /\ Truthy(call.args[1].order_id)
    /\ Truthy(call.args[1].tracking_number)
    /\ DOMAIN PRODUCT_CACHE = Keys
    /\ KeysOf(product_cache) = Keys

\* C10: cache_get_all of a key whose memory entry has now - ts <= TTL returns
\* that entry's items and meta, does not go to the durable store, and changes
\* neither the mapping nor the table.
C10_MemoryHit ==
    [][(/\ call'.op = "cache_get_all"
        /\ Truthy(call'.args[1])
        /\ call'.args[1].s \in DOMAIN PRODUCT_CACHE
        /\ now - PRODUCT_CACHE[call'.args[1].s].ts <= CACHE_TTL)
       => (/\ call'.ret = <<PRODUCT_CACHE[call'.args[1].s].items,
                            PRODUCT_CACHE[call'.args[1].s].meta>>
           /\ ~call'.durable
           /\ ~call'.raised
           /\ UNCHANGED <<PRODUCT_CACHE, product_cache>>)]_vars

\* a lookup was served from memory while the key's row is past the TTL
C10_Witness ==
    /\ call.op = "cache_get_all"
    /\ ~call.durable
    /\ call.ret[1] # None
    /\ \E r \in product_cache : r.cache_key = call.args[1].s /\ now - r.ts > CACHE_TTL

\* the row of a key and the values db_get decodes from it
RowFor(k) == CHOOSE r \in SelectByKey(product_cache, k) : TRUE
DurableLive(k) ==
    /\ SelectByKey(product_cache, k) # {}
    /\ ~main_get_expired(RowFor(k).ts, now)

C12_PlainMiss ==
    [][(/\ call'.op = "cache_get_all"
        /\ Truthy(call'.args[1]) => /\ ~memory_live(PRODUCT_CACHE, call'.args[1].s, now)
                                    /\ ~DurableLive(call'.args[1].s))
       => (/\ call'.ret = <<None, None>>
           /\ ~call'.raised
           /\ PRODUCT_CACHE' = PRODUCT_CACHE)]_vars

\* a lookup just missed on a key whose memory entry and durable row had both
\* expired: the row is gone, the entry is still the expired one
C12_Witness ==
    /\ call.op = "cache_get_all" /\ call.durable /\ ~call.raised
    /\ call.ret = <<None, None>>
    /\ call.args[1].s \in call.deleted
    /\ call.args[1].s \in DOMAIN PRODUCT_CACHE
    /\ now - PRODUCT_CACHE[call.args[1].s].ts > CACHE_TTL

\* C13: a cache_store_from_order leaves alone every key it does not write: the
\* memory entry and the durable row of a tracking number stored earlier keep
\* their items, meta and ts when a later order is stored under the order_id
\* alone.
C13_OtherKeyUntouched ==
    [][(call'.op = "cache_store_from_order")
       => \A k \in (DOMAIN PRODUCT_CACHE \cup KeysOf(product_cache))
                      \ OrderKeys(call'.args[1]) :
             /\ (k \in DOMAIN PRODUCT_CACHE
                    => k \in DOMAIN PRODUCT_CACHE' /\ PRODUCT_CACHE'[k] = PRODUCT_CACHE[k])
             /\ SelectByKey(product_cache', k) = SelectByKey(product_cache, k)]_vars

\* an order with content was just stored under the order_id alone, and the
\* tracking number still holds an older, different record in both tiers
C13_Witness ==
    /\ call.op = "cache_store_from_order"
    /\ OrderKeys(call.args[1]) = {"A1"}
    /\ Truthy(Or(call.args[1].product_info, List(<<>>)))
    /\ {"A1", "SPXVN1"} \subseteq DOMAIN PRODUCT_CACHE
    /\ PRODUCT_CACHE["SPXVN1"].items # PRODUCT_CACHE["A1"].items
    /\ PRODUCT_CACHE["SPXVN1"].ts < PRODUCT_CACHE["A1"].ts
    /\ \E r \in product_cache :
          /\ r.cache_key = "SPXVN1"
          /\ r.ts = PRODUCT_CACHE["SPXVN1"].ts
          /\ LoadColumn(r.items_json).v = PRODUCT_CACHE["SPXVN1"].items

\* every writer has returned from its db_upsert
AllDone == DOMAIN inflight = Writers /\ \A w \in Writers : inflight[w].pc = "done"
\* the writers whose db_upsert wrote a row under k
Wrote(k) ==
    {w \in DOMAIN inflight :
        /\ ~inflight[w].raised
        /\ \E r \in inflight[w].rows : r.cache_key = k}

\* C14: whatever the interleaving of the db_upsert calls on a key, once all
\* have returned there is exactly one row of the key and it is, in all three
\* columns, the row of one of the calls; no call fails except a sqlite3 writer
\* that found the database locked, and no successful call leaves the key
\* without a row.
C14_UpsertAtomic ==
    AllDone =>
        /\ \A k \in Keys :
              Wrote(k) # {} =>
                 /\ Cardinality(SelectByKey(product_cache, k)) = 1
                 /\ \E w \in Wrote(k) : SelectByKey(product_cache, k) = inflight[w].rows
        /\ \A w \in Writers : inflight[w].raised => ~USE_TURSO /\ inflight[w].rows # {}

\* two overlapping calls wrote rows that differ in every column under the same
\* key, and both have returned
C14_Witness ==
    /\ AllDone
    /\ \E v, w \in Writers :
          /\ v \in inflight[w].with
          /\ ~inflight[v].raised /\ ~inflight[w].raised
          /\ \E r \in inflight[v].rows : \E q \in inflight[w].rows :
                /\ r.cache_key = q.cache_key
                /\ r.items_json # q.items_json
                /\ r.meta_json # q.meta_json
                /\ r.ts # q.ts
                /\ r \in product_cache

\* a payload that json.loads does not decode
Malformed(c) == c.sql = "TEXT" /\ ~JsonLoads(c.text).ok
\* the expiry test of db_get under the implementation in use
Expired(ts) ==
    IF backend = "main" THEN main_get_expired(ts, now)
    ELSE backend_get_expired(ts, now, USE_TURSO)

\* C15: when db_get finds a row that is not expired and whose items payload or
\* meta payload does not decode, db_get raises, and so does the cache_get_all
\* that called it; neither returns (absent, absent) or empty data.
C15_MalformedRaises ==
    [][(/\ call'.op \in {"db_get", "cache_get_all"}
        /\ call'.durable
        /\ call'.failed = {}
        /\ Truthy(call'.args[1])
        /\ \E r \in SelectByKey(product_cache, call'.args[1].s) :
              /\ ~Expired(r.ts)
              /\ Malformed(r.items_json) \/ Malformed(r.meta_json))
       => call'.raised]_vars

\* C16: a store operation in which a statement failed raises, the DELETE of
\* db_get's lazy expiry included.
C16_FailurePropagates ==
    [][(call'.failed # {}) => call'.raised]_vars

\* C17: in every state, each call with each failing statement gives the same
\* result and the same rows in the embedded and in the remote branch of
\* db_backend; so the two branches, started alike and driven alike, stay alike.
C17_BranchesAgree ==
    \A bad \in BadSets :
        /\ \A a \in FaultUpsertArgs :
              backend_db_upsert_failing(product_cache, a[1], a[2], a[3], a[4], now, FALSE, bad)
              = backend_db_upsert_failing(product_cache, a[1], a[2], a[3], a[4], now, TRUE, bad)
        /\ \A k \in KeyArgs :
              backend_db_get_failing(product_cache, k, now, FALSE, bad)
              = backend_db_get_failing(product_cache, k, now, TRUE, bad)
        /\ \A n \in Limits :
              backend_db_list_spx_keys_failing(product_cache, n, now, FALSE, bad)
              = backend_db_list_spx_keys_failing(product_cache, n, now, TRUE, bad)
        /\ backend_db_purge_expired_failing(product_cache, now, FALSE, bad)
           = backend_db_purge_expired_failing(product_cache, now, TRUE, bad)

\* C18: db_list_spx_keys(limit) returns only keys that start with "SPXVN" and
\* whose row is not expired (ts >= now - TTL), the most recent first, and at
\* most limit of them.
C18_ListContract ==
    (call.op = "db_list_spx_keys" /\ ~call.raised) =>
        LET keys == call.ret[1] IN
        /\ Len(keys) <= call.args[1].n
        /\ \A i \in 1..Len(keys) :
              /\ StartsWithSPXVN(keys[i])
              /\ \E r \in product_cache : r.cache_key = keys[i] /\ r.ts >= now - CACHE_TTL
        /\ \A i, j \in 1..Len(keys) :
              i < j => RowFor(keys[i]).ts >= RowFor(keys[j]).ts

\* a non-empty list
NonEmptyList(v) == v.t = "list" /\ v.l # <<>>

\* C19: in every reachable state, whatever cache_store_from_order, db_upsert,
\* cache_get_all, db_get and db_purge_expired calls led to it, every durable
\* row and every memory entry holds a non-empty items list.
C19_NoEmptyItems ==
    /\ \A r \in product_cache :
          LoadColumn(r.items_json).ok /\ NonEmptyList(LoadColumn(r.items_json).v)
    /\ \A k \in DOMAIN PRODUCT_CACHE : NonEmptyList(PRODUCT_CACHE[k].items)

\* an order with an empty product_info was just handed to
\* cache_store_from_order while both tiers hold records
C19_Witness ==
    /\ call.op = "cache_store_from_order"
    /\ call.args[1].product_info = List(<<>>)
    /\ OrderKeys(call.args[1]) # {}
    /\ product_cache # {}
    /\ PRODUCT_CACHE # EmptyMap

\* the durable store holds a row of k that is past the TTL
ExpiredRow(k) == \E r \in product_cache : r.cache_key = k /\ now - r.ts > CACHE_TTL

\* C20: while db_purge_expired keeps being invoked (at process start, after an
\* ingestion) or db_get is invoked on the key, a row that is past the TTL does
\* not stay in the durable store forever, read again or not.
C20_ExpiredRowRemoved ==
    \A k \in Keys : ExpiredRow(k) ~> ~ExpiredRow(k)

\* a sweep (db_purge_expired, or the one of a process start) just removed
\* rows, and none of their keys holds an expired row any more
C20_Witness ==
    /\ call.op \in {"db_purge_expired", "main"}
    /\ call.deleted # {}
    /\ \A k \in call.deleted : ~ExpiredRow(k)

\* C21: every db_init, on a store without the table, with the current table or
\* with a table of the older schema, ends with the current schema (meta_json
\* included), does not raise, and keeps the key, items and ts of every row.
C21_InitEnsuresSchema ==
    [][(call'.op = "db_init")
       => (/\ schema' = "current"
           /\ ~call'.raised
           /\ KeysOf(product_cache') = KeysOf(product_cache)
           /\ \A r \in product_cache : \E q \in product_cache' :
                 /\ q.cache_key = r.cache_key
                 /\ q.items_json = r.items_json
                 /\ q.ts = r.ts)]_vars

\* the callers whose cache_store_from_order wrote under k
Stored(k) ==
    {w \in DOMAIN inflight : inflight[w].wrote /\ k \in OrderKeys(inflight[w].order)}

\* C22: whatever the interleaving of the cache_store_from_order calls that
\* write a key, once all have returned the memory entry and the durable row
\* of the key hold the items, meta and ts of one and the same call.
C22_TiersAgree ==
    AllDone =>
        \A k \in Keys :
            Stored(k) # {} =>
                \E w \in Stored(k) :
                    /\ k \in DOMAIN PRODUCT_CACHE
                    /\ PRODUCT_CACHE[k] = inflight[w].entry
                    /\ SelectByKey(product_cache, k)
                         = {main_upsert_row(Str(k), inflight[w].entry.items,
                                            Num(inflight[w].entry.ts),
                                            inflight[w].entry.meta, now)}

\* the durable store holds the items and meta of the memory entry e under k
DurablyHeld(T, k, e) ==
    \E r \in T : /\ r.cache_key = k
                 /\ r.items_json = SqlText(JsonDumps(e.items))
                 /\ r.meta_json = SqlText(JsonDumps(e.meta))

\* C23: when a db_upsert inside cache_store_from_order raises, the call
\* raises and PRODUCT_CACHE holds, under the order_id and the tracking_number
\* of the order, no entry whose content is not in the durable store.
C23_FailedStoreConsistent ==
    [][(call'.op = "cache_store_from_order" /\ call'.failed # {})
       => (/\ call'.raised
           /\ \A k \in OrderKeys(call'.args[1]) :
                 k \in DOMAIN PRODUCT_CACHE'
                    => DurablyHeld(product_cache', k, PRODUCT_CACHE'[k]))]_vars

Handlers == {"handle_input_text", "list_cmd"}

\* C24: in handle_input_text (cookie path and SPX path) and in list_cmd, a
\* failure of the cache backend does not leave the handler as an exception,
\* and the request is answered.
C24_HandlersDegrade ==
    [][(call'.op \in Handlers /\ call'.failed # {})
       => (~call'.raised /\ call'.ret # <<>>)]_vars

\* C25: a cache_get_all that follows a cache_get_all of the same key, with no
\* write, purge or tick in between and both returning, returns the same
\* items and the same meta, whatever the durable row of the key.
C25_LookupRepeatable ==
    [][(/\ call.op = "cache_get_all" /\ ~call.raised
        /\ call'.op = "cache_get_all" /\ ~call'.raised
        /\ call'.args = call.args)
       => call'.ret = call.ret]_vars

\* C26: a cookie request answered with the banned-account reply or with the
\* DeadCookie reply leaves PRODUCT_CACHE and the durable store as they were.
C26_RejectedNotCached ==
    [][(/\ call'.op = "handle_input_text"
        /\ call'.args[1] = "cookie"
        /\ call'.ret \in {<<"calling", "banned">>, <<"calling", "dead_cookie">>})
       => (PRODUCT_CACHE' = PRODUCT_CACHE /\ product_cache' = product_cache)]_vars

\* C27: in main and in run_bot, db_init has returned when db_purge_expired is
\* called, both have returned when the polling loop starts, and a handler
\* runs only under the polling loop; so a handler, the first one included,
\* finds the table in place and no row with ts < StartTime - CACHE_TTL.
C27_StartupOrder ==
    [][/\ (pc' # pc /\ pc' \in {"main_init", "web_init"})
            => (pc = "import" /\ call'.op = "db_init")
       /\ (pc' # pc /\ pc' = "main_purged")
            => (pc = "main_init" /\ call'.op = "db_purge_expired")
       /\ (pc' # pc /\ pc' = "web_purged")
            => (pc = "web_init" /\ call'.op = "db_purge_expired")
       /\ (pc' # pc /\ pc' = "polling") => pc \in {"main_purged", "web_purged"}
       /\ (call'.op \in Handlers)
            => (/\ pc = "polling"
                /\ schema = "current"
                /\ \A r \in product_cache : r.ts >= StartTime - CACHE_TTL)]_vars

\* the first request is being answered, on a store that kept the row of the
\* earlier run that was still live
C27_Witness ==
    /\ pc = "polling"
    /\ call.op \in Handlers
    /\ \E r \in product_cache : r.ts = StartTime - 1
    /\ \A r \in product_cache : r.ts = StartTime - 1
====
